---- MODULE Spec2Model ----
(***************************************************************************)
(* TireTrade Pro API (src/main.py): the Terminal49 tracking relay.         *)
(*                                                                         *)
(* Each inbound request is a coroutine that runs from one await to the     *)
(* next; every action below is one such run of a handler: from its entry   *)
(* to its first upstream call, or from the arrival of an upstream reply to *)
(* the next upstream call or to the handler's return / raise.              *)
(*                                                                         *)
(* JSON objects are functions from key strings to values; a missing key is *)
(* a key outside the DOMAIN, read with Get(obj, key, default) as dict.get  *)
(* does.  Python None is the string None.  Strings the code strips are     *)
(* sequences of one-character strings.                                     *)
(***************************************************************************)
EXTENDS Integers, Sequences, FiniteSets, TLC

VARIABLES environ, TERMINAL49_API_KEY, proc, DATA_FILE, lastSaved

vars == <<environ, TERMINAL49_API_KEY, proc, DATA_FILE, lastSaved>>

----------------------------------------------------------------------------
(* Bounds of the model *)

MaxRefLen == 2      \* characters in a booking reference / BOL string
MaxRefs == 2        \* container relationship entries per shipment
MaxShips == 2       \* shipments in one upstream listing

Clients == {"c1"}   \* inbound requests in flight

----------------------------------------------------------------------------
(* Python / JSON values *)

None == "<None>"
Unset == "<unset>"
EmptyObj == <<>>

Get(obj, key, default) == IF key \in DOMAIN obj THEN obj[key] ELSE default

Truthy(s) == s \notin {None, ""}

Whitespace == {" ", "\t"}
Chars == Whitespace \cup {"A"}

RECURSIVE LStrip(_)
LStrip(s) == IF s # <<>> /\ Head(s) \in Whitespace THEN LStrip(Tail(s)) ELSE s

RECURSIVE RStrip(_)
RStrip(s) ==
    IF s # <<>> /\ s[Len(s)] \in Whitespace
    THEN RStrip(SubSeq(s, 1, Len(s) - 1))
    ELSE s

Strip(s) == RStrip(LStrip(s))

SeqsUpTo(S, n) == UNION {[1..k -> S] : k \in 0..n}

----------------------------------------------------------------------------
(* CONFIG *)

PLACEHOLDER == "YOUR_API_KEY_HERE"

Getenv(env, default) == IF env = Unset THEN default ELSE env

EnvValues == {Unset, PLACEHOLDER, "t49-live-key"}

SCAC_MAP ==
    << <<"Maersk", "MAEU">>, <<"MSC", "MSCU">>, <<"CMA CGM", "CMDU">>,
       <<"Hapag-Lloyd", "HLCU">>, <<"COSCO", "COSU">>, <<"ONE", "ONEY">>,
       <<"Evergreen", "EGLV">>, <<"HMM", "HDMU">>, <<"ZIM", "ZIMU">>,
       <<"Yang Ming", "YMLU">> >>

SCAC_MAP_keys == [i \in 1..Len(SCAC_MAP) |-> SCAC_MAP[i][1]]

ScacGetFolded(carrier) ==
    LET fold == [maersk |-> "Maersk", MAERSK |-> "Maersk"]
        name == Get(fold, carrier, carrier)
        hits == {i \in 1..Len(SCAC_MAP) : SCAC_MAP[i][1] = name}
    IN  IF hits = {} THEN None ELSE SCAC_MAP[CHOOSE i \in hits : TRUE][2]

ScacGet(carrier) ==
    LET hits == {i \in 1..Len(SCAC_MAP) : SCAC_MAP[i][1] = carrier}
    IN  IF hits = {} THEN None ELSE SCAC_MAP[CHOOSE i \in hits : TRUE][2]

NotConfiguredNever(key) == FALSE

NotConfigured(key) == key = PLACEHOLDER

----------------------------------------------------------------------------
(* Results of a handler *)

NoResult == [kind |-> "none"]

HTTPException(code, detail) == [kind |-> "raise", code |-> code, detail |-> detail]

Return(body) == [kind |-> "return", body |-> body]

(* One upstream call as it leaves the process *)
Call(method, resource, id, number, scac) ==
    [method |-> method, resource |-> resource, id |-> id,
     request_number |-> number, scac |-> scac]

(* What awaiting an upstream call can produce: a response with a status and
   a decoded JSON body, httpx.TimeoutException, or any other exception raised
   inside the try block (connection failure, undecodable body, ...). *)
Response(status, body) == [kind |-> "response", status |-> status, body |-> body]
TimeoutException == [kind |-> "timeout", msg |-> "timed out"]
OtherException == [kind |-> "exception", msg |-> "connection failed"]

Exceptions == {TimeoutException, OtherException}

OnExceptionAll502(o, timeoutDetail) == HTTPException(502, <<o.msg>>)

OnException(o, timeoutDetail) ==
    IF o.kind = "timeout"
    THEN HTTPException(504, <<timeoutDetail>>)
    ELSE HTTPException(502, <<o.msg>>)

IdleProc ==
    [pc |-> "idle", op |-> "none", bookingRef |-> <<>>, carrier |-> "",
     request_id |-> "", bol |-> <<>>,
     deals |-> <<>>, filename |-> <<>>, upload |-> [json |-> "invalid"],
     calls |-> <<>>, replies |-> <<>>, result |-> NoResult,
     shipment |-> EmptyObj, container_refs |-> <<>>, i |-> 0,
     containers |-> <<>>, shipments |-> <<>>, s |-> 0, results |-> <<>>]

Finish(p, result) == [p EXCEPT !.pc = "done", !.result = result]

----------------------------------------------------------------------------
(* POST /api/track *)

BookingRefs == SeqsUpTo(Chars, MaxRefLen)

Carriers ==
    {SCAC_MAP[i][1] : i \in 1..Len(SCAC_MAP)}
        \cup {"maersk", "MAERSK", "Maers", ""}

IsBlankNoStrip(ref) == ref = <<>>

IsBlank(ref) == ref = <<>> \/ Strip(ref) = <<>>

UnknownCarrierDetail(carrier) ==
    <<"Unknown carrier \"", carrier, "\". Supported: ">> \o SCAC_MAP_keys

SubmitStatuses == {200, 201, 202, 204, 400, 401, 422, 500}

SubmitBodies ==
    { [data |-> [id |-> "TR1", type |-> "tracking_request"]],
      [errors |-> "duplicate"] }

SubmitReturnNoDuplicate(status, data) ==
    Return([success |-> status \in {200, 201, 202}, status |-> status, data |-> data])

SubmitReturnRaising(status, data) ==
    IF status = 422
    THEN Return([success |-> TRUE, status |-> 422, duplicate |-> TRUE, data |-> data,
                 message |-> "Booking already tracked. Fetching existing shipment data..."])
    ELSE IF status \in {200, 201, 202}
    THEN Return([success |-> TRUE, status |-> status, data |-> data])
    ELSE HTTPException(502, <<"upstream status">>)

SubmitReturn(status, data) ==
    IF status = 422
    THEN Return([success |-> TRUE, status |-> 422, duplicate |-> TRUE, data |-> data,
                 message |-> "Booking already tracked. Fetching existing shipment data..."])
    ELSE Return([success |-> status \in {200, 201, 202}, status |-> status, data |-> data])

KeyNotConfiguredDetail ==
    <<"Terminal49 API key not configured. Set TERMINAL49_API_KEY env var on Render.">>

SubmitCheckKeyFirst(bookingRef, key, carrier) ==
    IF NotConfigured(key)
    THEN HTTPException(503, KeyNotConfiguredDetail)
    ELSE IF IsBlank(bookingRef)
    THEN HTTPException(400, <<"Booking reference is required">>)
    ELSE IF ~Truthy(ScacGet(carrier))
    THEN HTTPException(400, UnknownCarrierDetail(carrier))
    ELSE NoResult

(* The three raises that precede the POST, in the order the handler makes
   them; NoResult when none applies *)
SubmitCheck(bookingRef, key, carrier) ==
    IF IsBlank(bookingRef)
    THEN HTTPException(400, <<"Booking reference is required">>)
    ELSE IF NotConfigured(key)
    THEN HTTPException(503, KeyNotConfiguredDetail)
    ELSE IF ~Truthy(ScacGet(carrier))
    THEN HTTPException(400, UnknownCarrierDetail(carrier))
    ELSE NoResult

track_by_booking(c, bookingRef, carrier) ==
    /\ proc[c].pc = "idle"
    /\ LET p == [proc[c] EXCEPT !.op = "submit", !.bookingRef = bookingRef,
                                !.carrier = carrier]
           raised == SubmitCheck(bookingRef, TERMINAL49_API_KEY, carrier)
       IN  proc' = [proc EXCEPT ![c] =
             IF raised # NoResult
             THEN Finish(p, raised)
             ELSE [p EXCEPT !.pc = "post",
                            !.calls = Append(@, Call("POST", "tracking_requests", None,
                                                     Strip(bookingRef), ScacGet(carrier)))]]
    /\ UNCHANGED <<environ, TERMINAL49_API_KEY, DATA_FILE, lastSaved>>

track_by_booking_reply(c, o) ==
    /\ proc[c].pc = "post"
    /\ LET p == [proc[c] EXCEPT !.replies = Append(@, o)]
       IN  proc' = [proc EXCEPT ![c] =
             IF o.kind = "response"
             THEN Finish(p, SubmitReturn(o.status, o.body))
             ELSE Finish(p, OnException(o, "Terminal49 request timed out"))]
    /\ UNCHANGED <<environ, TERMINAL49_API_KEY, DATA_FILE, lastSaved>>

SubmitOutcomes ==
    {Response(st, b) : st \in SubmitStatuses, b \in SubmitBodies} \cup Exceptions

----------------------------------------------------------------------------
(* Upstream documents (sparse JSON:API bodies) *)

NoneObj == [isNone |-> TRUE]     \* None where an object is expected

Falsy(obj) == obj = NoneObj \/ obj = EmptyObj

RefObjs == {[id |-> "C1", type |-> "container"], [id |-> "C2"],
            [type |-> "container"], [id |-> ""]}

RefLists == SeqsUpTo(RefObjs, MaxRefs)

ShipAttrsFull ==
    [bill_of_lading_number |-> "BL1", shipping_line_name |-> "Maersk",
     shipping_line_scac |-> "MAEU", pod_vessel_name |-> "EVER GIVEN",
     pod_voyage_number |-> "V1", port_of_lading_name |-> "Shanghai",
     port_of_lading_locode |-> "CNSHA", port_of_discharge_name |-> "Oakland",
     port_of_discharge_locode |-> "USOAK", destination_name |-> "Reno",
     pol_etd_at |-> "t1", pol_atd_at |-> "t2", pod_eta_at |-> "t3",
     pod_ata_at |-> "t4", status |-> "in_transit"]

ShipAttrsSparse == [bill_of_lading_number |-> "BL2", line_tracking_no_longer_supported |-> "no"]

ContAttrsFull ==
    [number |-> "MSKU1", seal_number |-> "SL1", equipment_type |-> "dry",
     equipment_length |-> "40", weight_in_lbs |-> "4000", status |-> "delivered",
     pod_arrived_at |-> "a", pod_discharged_at |-> "b", pod_full_out_at |-> "c",
     pol_loaded_at |-> "d", pol_etd_at |-> "e", pod_eta_at |-> "f",
     pickup_lfd |-> "g", holds_at_pod_terminal |-> "h", fees_at_pod_terminal |-> "k",
     pod_rail_loaded_at |-> "r"]

ContAttrsFuture == [current_issues |-> "none", pod_timezone |-> "PST"]

TrBody(attributes, tracked) ==
    [data |-> [id |-> "TR1", attributes |-> attributes,
               relationships |-> [tracked_object |-> [data |-> tracked]]]]

Linked == [id |-> "S1", type |-> "shipment"]

TrBodies ==
    { EmptyObj,
      [data |-> [attributes |-> [status |-> "pending"]]],
      TrBody([status |-> "pending", failed_reason |-> None], Linked),
      [data |-> [attributes |-> [status |-> "failed", failed_reason |-> "carrier rejected"]]],
      [data |-> [attributes |-> [status |-> "failed"]]],
      TrBody([status |-> "failed", failed_reason |-> None], Linked),
      [data |-> [attributes |-> [status |-> "created"]]],
      TrBody([status |-> "created"], NoneObj),
      TrBody([status |-> "created"], EmptyObj),
      TrBody([status |-> "succeeded"], [type |-> "shipment"]),
      TrBody([status |-> "succeeded"], [id |-> ""]),
      TrBody([status |-> "succeeded"], Linked),
      TrBody([status |-> "created"], Linked),
      TrBody(EmptyObj, Linked) }

TrOutcomes ==
    {Response(200, b) : b \in TrBodies}
        \cup {Response(404, [errors |-> "not found"]),
              Response(404, TrBody([status |-> "succeeded"], Linked)),
              Response(500, [data |-> [attributes |-> [status |-> "pending"]]])}
        \cup Exceptions

ShipDoc(attributes, refs) ==
    [data |-> [id |-> "S1", attributes |-> attributes,
               relationships |-> [containers |-> [data |-> refs]]]]

ShipBodies ==
    {ShipDoc(a, refs) : a \in {ShipAttrsFull, ShipAttrsSparse}, refs \in RefLists}
        \cup {EmptyObj, [data |-> [id |-> "S1"]]}

ShipOutcomes ==
    {Response(200, b) : b \in ShipBodies}
        \cup {Response(404, [errors |-> "not found"]),
              Response(500, ShipDoc(ShipAttrsFull, <<[id |-> "C1"]>>))}
        \cup Exceptions

ContBodies(cid) ==
    { EmptyObj,
      [data |-> [id |-> cid, attributes |-> ContAttrsFull]],
      [data |-> [id |-> cid, attributes |-> ContAttrsFuture]],
      [data |-> [id |-> cid]] }

ContOutcomes(cid) ==
    {Response(200, b) : b \in ContBodies(cid)}
        \cup {Response(404, [errors |-> "not found"]),
              Response(500, [data |-> [id |-> cid, attributes |-> ContAttrsFull]])}
        \cup Exceptions

(* for cref in container_refs: cid = cref.get("id"); if cid: -- the index of
   the first entry at or after i whose fetch the loop issues *)
RECURSIVE NextRef(_, _)
NextRef(refs, i) ==
    IF i > Len(refs) THEN i
    ELSE IF Truthy(Get(refs[i], "id", None)) THEN i
    ELSE NextRef(refs, i + 1)

ContainerRefs(shipment) ==
    Get(Get(Get(shipment, "relationships", EmptyObj), "containers", EmptyObj), "data", <<>>)

ContainerCall(cref) == Call("GET", "containers", cref["id"], None, None)

----------------------------------------------------------------------------
(* GET /api/track/{request_id} *)

RequestIds == {"TR1"}

FailedReasonWrongKey(attrs) == Get(attrs, "reason", "Unknown error")

FailedReason(attrs) == Get(attrs, "failed_reason", "Unknown error")

ShapeContainerNamedOnly(c_data) ==
    LET c_attrs == Get(c_data, "attributes", EmptyObj)
        named == {"number", "seal_number", "equipment_type", "equipment_length",
                  "weight_in_lbs", "status", "pod_arrived_at", "pod_discharged_at",
                  "pod_full_out_at", "pol_loaded_at", "pol_etd_at", "pod_eta_at",
                  "pickup_lfd", "holds_at_pod_terminal", "fees_at_pod_terminal"}
    IN  [id |-> Get(c_data, "id", None),
         number |-> Get(c_attrs, "number", ""),
         seal_number |-> Get(c_attrs, "seal_number", ""),
         equipment_type |-> Get(c_attrs, "equipment_type", ""),
         equipment_length |-> Get(c_attrs, "equipment_length", ""),
         weight_kg |-> Get(c_attrs, "weight_in_lbs", None),
         status |-> Get(c_attrs, "status", ""),
         pod_arrived_at |-> Get(c_attrs, "pod_arrived_at", None),
         pod_discharged_at |-> Get(c_attrs, "pod_discharged_at", None),
         pod_full_out_at |-> Get(c_attrs, "pod_full_out_at", None),
         pol_loaded_at |-> Get(c_attrs, "pol_loaded_at", None),
         pol_etd_at |-> Get(c_attrs, "pol_etd_at", None),
         pod_eta_at |-> Get(c_attrs, "pod_eta_at", None),
         pickup_lfd |-> Get(c_attrs, "pickup_lfd", None),
         holds_at_pod_terminal |-> Get(c_attrs, "holds_at_pod_terminal", None),
         fees_at_pod_terminal |-> Get(c_attrs, "fees_at_pod_terminal", None),
         raw |-> [k \in DOMAIN c_attrs \cap named |-> c_attrs[k]]]

ShapeContainer(c_data) ==
    LET c_attrs == Get(c_data, "attributes", EmptyObj)
    IN  [id |-> Get(c_data, "id", None),
         number |-> Get(c_attrs, "number", ""),
         seal_number |-> Get(c_attrs, "seal_number", ""),
         equipment_type |-> Get(c_attrs, "equipment_type", ""),
         equipment_length |-> Get(c_attrs, "equipment_length", ""),
         weight_kg |-> Get(c_attrs, "weight_in_lbs", None),
         status |-> Get(c_attrs, "status", ""),
         pod_arrived_at |-> Get(c_attrs, "pod_arrived_at", None),
         pod_discharged_at |-> Get(c_attrs, "pod_discharged_at", None),
         pod_full_out_at |-> Get(c_attrs, "pod_full_out_at", None),
         pol_loaded_at |-> Get(c_attrs, "pol_loaded_at", None),
         pol_etd_at |-> Get(c_attrs, "pol_etd_at", None),
         pod_eta_at |-> Get(c_attrs, "pod_eta_at", None),
         pickup_lfd |-> Get(c_attrs, "pickup_lfd", None),
         holds_at_pod_terminal |-> Get(c_attrs, "holds_at_pod_terminal", None),
         fees_at_pod_terminal |-> Get(c_attrs, "fees_at_pod_terminal", None),
         raw |-> c_attrs]

ShipmentSummary(shipment) ==
    LET s_attrs == Get(shipment, "attributes", EmptyObj)
    IN  [id |-> Get(shipment, "id", None),
         bol_number |-> Get(s_attrs, "bill_of_lading_number", None),
         shipping_line |-> Get(s_attrs, "shipping_line_name", None),
         scac |-> Get(s_attrs, "shipping_line_scac", None),
         vessel |-> Get(s_attrs, "pod_vessel_name", None),
         voyage |-> Get(s_attrs, "pod_voyage_number", None),
         pol_name |-> Get(s_attrs, "port_of_lading_name", None),
         pol_locode |-> Get(s_attrs, "port_of_lading_locode", None),
         pod_name |-> Get(s_attrs, "port_of_discharge_name", None),
         pod_locode |-> Get(s_attrs, "port_of_discharge_locode", None),
         destination |-> Get(s_attrs, "destination_name", None),
         pol_etd |-> Get(s_attrs, "pol_etd_at", None),
         pol_atd |-> Get(s_attrs, "pol_atd_at", None),
         pod_eta |-> Get(s_attrs, "pod_eta_at", None),
         pod_ata |-> Get(s_attrs, "pod_ata_at", None),
         status |-> Get(s_attrs, "status", None)]

(* a container list kept at module level and never cleared: what finished
   requests collected is still in it *)
RECURSIVE Leftover(_)
Leftover(S) ==
    IF S = {} THEN <<>>
    ELSE LET d == CHOOSE x \in S : TRUE
         IN  (IF proc[d].pc = "done" THEN proc[d].containers ELSE <<>>)
                 \o Leftover(S \ {d})

PollReturnShared(shipment, containers) ==
    Return([success |-> TRUE, tracking_status |-> "succeeded",
            shipment |-> ShipmentSummary(shipment),
            containers |-> Leftover(DOMAIN proc) \o containers,
            containerCount |-> Len(Leftover(DOMAIN proc) \o containers)])

PollReturn(shipment, containers) ==
    Return([success |-> TRUE, tracking_status |-> "succeeded",
            shipment |-> ShipmentSummary(shipment),
            containers |-> containers, containerCount |-> Len(containers)])

(* The container loop of the poller from entry i on: up to the next fetch it
   awaits, or through steps 5 and the return when no entry is left *)
PollLoop(p, i) ==
    LET j == NextRef(p.container_refs, i)
    IN  IF j <= Len(p.container_refs)
        THEN [p EXCEPT !.pc = "get_cont", !.i = j,
                       !.calls = Append(@, ContainerCall(p.container_refs[j]))]
        ELSE Finish([p EXCEPT !.i = j], PollReturn(p.shipment, p.containers))

poll_tracking_request(c, request_id) ==
    /\ proc[c].pc = "idle"
    /\ LET p == [proc[c] EXCEPT !.op = "poll", !.request_id = request_id]
       IN  proc' = [proc EXCEPT ![c] =
             IF NotConfigured(TERMINAL49_API_KEY)
             THEN Finish(p, HTTPException(503, <<"API key not configured">>))
             ELSE [p EXCEPT !.pc = "get_tr",
                            !.calls = Append(@, Call("GET", "tracking_requests",
                                                     request_id, None, None))]]
    /\ UNCHANGED <<environ, TERMINAL49_API_KEY, DATA_FILE, lastSaved>>

PendingNotSpecial(status) == FALSE

IsPending(status) == status = "pending"

ReadFailedServerError(status) == status >= 500

ReadFailed(status) == status # 200

NotLinkedRaises(status) == HTTPException(404, <<"No shipment linked">>)

NotLinkedReturn(status) ==
    Return([success |-> TRUE, tracking_status |-> status,
            message |-> "Processed but no shipment linked yet. Try again shortly."])

AfterRequestRead(p, o) ==
    LET tr_data == o.body
        attrs == Get(Get(tr_data, "data", EmptyObj), "attributes", EmptyObj)
        status == Get(attrs, "status", "unknown")
        tracked_obj ==
            Get(Get(Get(Get(tr_data, "data", EmptyObj), "relationships", EmptyObj),
                    "tracked_object", EmptyObj), "data", NoneObj)
    IN  IF ReadFailed(o.status)
        THEN Finish(p, Return([success |-> FALSE, status |-> o.status, data |-> o.body]))
        ELSE IF IsPending(status)
        THEN Finish(p, Return([success |-> TRUE, tracking_status |-> "pending",
                 message |-> "Terminal49 is still fetching data. Poll again in 3-5 seconds."]))
        ELSE IF status = "failed"
        THEN Finish(p, Return([success |-> FALSE, tracking_status |-> "failed",
                               reason |-> FailedReason(attrs)]))
        ELSE IF Falsy(tracked_obj) \/ ~Truthy(Get(tracked_obj, "id", None))
        THEN Finish(p, NotLinkedReturn(status))
        ELSE [p EXCEPT !.pc = "get_ship",
                       !.calls = Append(@, Call("GET", "shipments", tracked_obj["id"],
                                                None, None))]

poll_request_reply(c, o) ==
    /\ proc[c].pc = "get_tr"
    /\ LET p == [proc[c] EXCEPT !.replies = Append(@, o)]
       IN  proc' = [proc EXCEPT ![c] =
             IF o.kind = "response"
             THEN AfterRequestRead(p, o)
             ELSE Finish(p, OnException(o, "Timeout polling Terminal49"))]
    /\ UNCHANGED <<environ, TERMINAL49_API_KEY, DATA_FILE, lastSaved>>

ShipmentOfAnyStatus(o) == Get(o.body, "data", EmptyObj)

ShipmentOf(o) == IF o.status = 200 THEN Get(o.body, "data", EmptyObj) ELSE EmptyObj

poll_shipment_reply(c, o) ==
    /\ proc[c].pc = "get_ship"
    /\ LET p == [proc[c] EXCEPT !.replies = Append(@, o)]
           shipment == IF o.kind = "response" THEN ShipmentOf(o) ELSE EmptyObj
       IN  proc' = [proc EXCEPT ![c] =
             IF o.kind = "response"
             THEN PollLoop([p EXCEPT !.shipment = shipment,
                                     !.container_refs = ContainerRefs(shipment),
                                     !.containers = <<>>], 1)
             ELSE Finish(p, OnException(o, "Timeout polling Terminal49"))]
    /\ UNCHANGED <<environ, TERMINAL49_API_KEY, DATA_FILE, lastSaved>>

KeepAnyStatus(status) == TRUE

Keep(status) == status = 200

NextIndexRetryOnce(p, o) ==
    LET n == Len(p.calls)
    IN  IF o.status = 200 \/ (n >= 4 /\ p.calls[n] = p.calls[n - 1])
        THEN p.i + 1
        ELSE p.i

(* the loop moves to the next relationship entry whatever the reply was *)
NextIndex(p, o) == p.i + 1

poll_container_reply(c, o) ==
    /\ proc[c].pc = "get_cont"
    /\ LET p == [proc[c] EXCEPT !.replies = Append(@, o)]
       IN  proc' = [proc EXCEPT ![c] =
             IF o.kind = "response"
             THEN PollLoop(
                    IF Keep(o.status)
                    THEN [p EXCEPT !.containers =
                            Append(@, ShapeContainer(Get(o.body, "data", EmptyObj)))]
                    ELSE p,
                    NextIndex(p, o))
             ELSE Finish(p, OnException(o, "Timeout polling Terminal49"))]
    /\ UNCHANGED <<environ, TERMINAL49_API_KEY, DATA_FILE, lastSaved>>

----------------------------------------------------------------------------
(* GET /api/track/shipments/search *)

Bols == SeqsUpTo(Chars, 1)

SearchShips ==
    {[id |-> "S1", attributes |-> ShipAttrsFull,
      relationships |-> [containers |-> [data |-> refs]]] : refs \in RefLists}
        \cup {[id |-> "S2"]}

RECURSIVE TotalRefs(_)
TotalRefs(ships) ==
    IF ships = <<>> THEN 0
    ELSE Len(ContainerRefs(Head(ships))) + TotalRefs(Tail(ships))

(* One upstream document lists at most MaxRefs container references: a
   listing shares them out among its shipments *)
ListingBodies ==
    {[data |-> ships] :
        ships \in {l \in SeqsUpTo(SearchShips, MaxShips) : TotalRefs(l) <= MaxRefs}}
        \cup {[errors |-> "unauthorized"]}

ListingOutcomes ==
    {Response(200, b) : b \in ListingBodies}
        \cup {Response(401, [errors |-> "unauthorized"])}
        \cup Exceptions

SearchContOutcomes(cid) ==
    {Response(200, [data |-> [id |-> cid, attributes |-> ContAttrsFuture]]),
     Response(200, EmptyObj),
     Response(404, [data |-> [id |-> cid]])}
        \cup Exceptions

SearchEntry(ship, containers) ==
    LET s_attrs == Get(ship, "attributes", EmptyObj)
    IN  [shipment |-> [id |-> Get(ship, "id", None),
                       bol_number |-> Get(s_attrs, "bill_of_lading_number", None),
                       vessel |-> Get(s_attrs, "pod_vessel_name", None),
                       pol_name |-> Get(s_attrs, "port_of_lading_name", None),
                       pod_name |-> Get(s_attrs, "port_of_discharge_name", None),
                       pod_eta |-> Get(s_attrs, "pod_eta_at", None),
                       status |-> Get(s_attrs, "status", None)],
         containers |-> containers,
         containerCount |-> Len(containers)]

SearchReturn(results) ==
    Return([success |-> TRUE, results |-> results, totalShipments |-> Len(results)])

AppendEntryIfContainers(results, ship, containers) ==
    IF containers = <<>> THEN results ELSE Append(results, SearchEntry(ship, containers))

AppendEntry(results, ship, containers) == Append(results, SearchEntry(ship, containers))

(* The nested loops of the search from shipment p.s, entry i on: up to the
   next container fetch it awaits, or through the return *)
RECURSIVE SearchLoop(_, _)
SearchLoop(p, i) ==
    IF p.s > Len(p.shipments)
    THEN Finish(p, SearchReturn(p.results))
    ELSE LET ship == p.shipments[p.s]
             refs == Get(Get(Get(ship, "relationships", EmptyObj), "containers", EmptyObj),
                         "data", <<>>)
             j == NextRef(refs, i)
         IN  IF j <= Len(refs)
             THEN [p EXCEPT !.pc = "search_cont", !.container_refs = refs, !.i = j,
                            !.calls = Append(@, ContainerCall(refs[j]))]
             ELSE SearchLoop([p EXCEPT !.results = AppendEntry(@, ship, p.containers),
                                       !.containers = <<>>, !.container_refs = <<>>,
                                       !.s = @ + 1], 1)

search_shipments_by_bol(c, bol) ==
    /\ proc[c].pc = "idle"
    /\ LET p == [proc[c] EXCEPT !.op = "search", !.bol = bol]
       IN  proc' = [proc EXCEPT ![c] =
             IF NotConfigured(TERMINAL49_API_KEY)
             THEN Finish(p, HTTPException(503, <<"API key not configured">>))
             ELSE [p EXCEPT !.pc = "list",
                            !.calls = Append(@, Call("GET", "shipments", None,
                                                     Strip(bol), None))]]
    /\ UNCHANGED <<environ, TERMINAL49_API_KEY, DATA_FILE, lastSaved>>

OnSearchExceptionLikePoller(o) ==
    IF o.kind = "timeout"
    THEN HTTPException(504, <<"Timeout searching Terminal49">>)
    ELSE HTTPException(502, <<o.msg>>)

OnSearchException(o) == HTTPException(502, <<o.msg>>)

search_listing_reply(c, o) ==
    /\ proc[c].pc = "list"
    /\ LET p == [proc[c] EXCEPT !.replies = Append(@, o)]
       IN  proc' = [proc EXCEPT ![c] =
             IF o.kind = "response"
             THEN SearchLoop([p EXCEPT !.shipments = Get(o.body, "data", <<>>),
                                       !.results = <<>>, !.containers = <<>>,
                                       !.s = 1], 1)
             ELSE Finish(p, OnSearchException(o))]
    /\ UNCHANGED <<environ, TERMINAL49_API_KEY, DATA_FILE, lastSaved>>

search_container_reply(c, o) ==
    /\ proc[c].pc = "search_cont"
    /\ LET p == [proc[c] EXCEPT !.replies = Append(@, o)]
       IN  proc' = [proc EXCEPT ![c] =
             IF o.kind = "response"
             THEN SearchLoop(
                    IF Keep(o.status)
                    THEN [p EXCEPT !.containers = Append(@, Get(o.body, "data", EmptyObj))]
                    ELSE p,
                    p.i + 1)
             ELSE Finish(p, OnSearchException(o))]
    /\ UNCHANGED <<environ, TERMINAL49_API_KEY, DATA_FILE, lastSaved>>

(* The identifier of the container fetch a request is awaiting *)
AwaitedId(c) == proc[c].container_refs[proc[c].i]["id"]

----------------------------------------------------------------------------
(* HELPERS: the deal file *)

(* A text is what json.loads makes of it: a list, null, or a decode error *)
InvalidText == [json |-> "invalid"]
NullText == [json |-> "null"]

JsonDumps(value) == [json |-> "list", value |-> value]

NoFile == [exists |-> FALSE, text |-> InvalidText]

FileWith(text) == [exists |-> TRUE, text |-> text]

(* a string json.dumps(ensure_ascii=False) passes on and utf-8 cannot encode *)
LoneSurrogate == "\\ud800"

Encodable(deals) ==
    \A k \in 1..Len(deals) : \A f \in DOMAIN deals[k] : deals[k][f] # LoneSurrogate

DealArrays ==
    { <<>>,
      <<[id |-> "d1"]>>,
      <<[id |-> "d2"], [id |-> "d1"]>>,
      <<[id |-> "d3", name |-> LoneSurrogate]>> }

IoOutcomes == {"ok", "denied"}

read_deals(file) ==
    IF ~file.exists THEN <<>>
    ELSE IF file.text.json = "invalid" THEN <<>>
    ELSE IF file.text.json = "null" THEN <<>>
    ELSE file.text.value

(* write_text opens the file for writing, which empties it, and then encodes
   and writes the text; io = "denied" is the mkdir or the open failing *)
write_deals(file, deals, io) ==
    IF io = "denied"
    THEN [file |-> file, result |-> [success |-> FALSE, error |-> "Permission denied"]]
    ELSE IF ~Encodable(deals)
    THEN [file |-> FileWith(InvalidText),
          result |-> [success |-> FALSE, error |-> "surrogates not allowed"]]
    ELSE [file |-> FileWith(JsonDumps(deals)),
          result |-> [success |-> TRUE,
                      count |-> Len(read_deals(FileWith(JsonDumps(deals)))),
                      path |-> "tire_deals.json"]]

NothingSaved == [some |-> FALSE, value |-> <<>>]

(* the array of the most recent save or import that succeeded *)
Saved(w, deals) == IF w.result.success THEN [some |-> TRUE, value |-> deals] ELSE lastSaved

----------------------------------------------------------------------------
(* DEAL ENDPOINTS *)

get_deals(c) ==
    /\ proc[c].pc = "idle"
    /\ LET deals == read_deals(DATA_FILE)
       IN  proc' = [proc EXCEPT ![c] =
             Finish([@ EXCEPT !.op = "load"],
                    Return([success |-> TRUE, deals |-> deals, count |-> Len(deals)]))]
    /\ UNCHANGED <<environ, TERMINAL49_API_KEY, DATA_FILE, lastSaved>>

save_deals(c, deals, io) ==
    /\ proc[c].pc = "idle"
    /\ LET w == write_deals(DATA_FILE, deals, io)
           p == [proc[c] EXCEPT !.op = "save", !.deals = deals]
       IN  /\ proc' = [proc EXCEPT ![c] =
                 IF ~w.result.success
                 THEN Finish(p, HTTPException(500, <<w.result.error>>))
                 ELSE Finish(p, Return(w.result))]
           /\ DATA_FILE' = w.file
           /\ lastSaved' = Saved(w, deals)
    /\ UNCHANGED <<environ, TERMINAL49_API_KEY>>

Filenames == {<<"deals", ".json">>, <<"deals", ".txt">>}

Uploads ==
    {JsonDumps(a) : a \in DealArrays}
        \cup {[json |-> "object", value |-> [id |-> "d1"]], InvalidText}

EndsWithJson(filename) == filename # <<>> /\ filename[Len(filename)] = ".json"

import_deals(c, filename, upload) ==
    /\ proc[c].pc = "idle"
    /\ LET p == [proc[c] EXCEPT !.op = "import", !.filename = filename, !.upload = upload]
       IN  proc' = [proc EXCEPT ![c] =
             IF ~EndsWithJson(filename)
             THEN Finish(p, HTTPException(400, <<"Only .json files accepted">>))
             ELSE [p EXCEPT !.pc = "read_upload"]]
    /\ UNCHANGED <<environ, TERMINAL49_API_KEY, DATA_FILE, lastSaved>>

import_deals_read(c, io) ==
    /\ proc[c].pc = "read_upload"
    /\ LET p == proc[c]
           data == p.upload
           w == write_deals(DATA_FILE, data.value, io)
       IN  IF data.json = "invalid"
           THEN /\ proc' = [proc EXCEPT ![c] =
                      Finish(p, HTTPException(400, <<"Invalid JSON file">>))]
                /\ UNCHANGED <<DATA_FILE, lastSaved>>
           ELSE IF data.json # "list"
           THEN /\ proc' = [proc EXCEPT ![c] =
                      Finish(p, HTTPException(400, <<"JSON must be an array of deals">>))]
                /\ UNCHANGED <<DATA_FILE, lastSaved>>
           ELSE /\ proc' = [proc EXCEPT ![c] =
                      IF ~w.result.success
                      THEN Finish(p, HTTPException(500, <<w.result.error>>))
                      ELSE Finish(p, Return([success |-> TRUE, count |-> Len(data.value)]))]
                /\ DATA_FILE' = w.file
                /\ lastSaved' = Saved(w, data.value)
    /\ UNCHANGED <<environ, TERMINAL49_API_KEY>>

(* the client's request is over; it may send the next one *)
NextRequest(c) ==
    /\ proc[c].pc = "done"
    /\ proc' = [proc EXCEPT ![c] = IdleProc]
    /\ UNCHANGED <<environ, TERMINAL49_API_KEY, DATA_FILE, lastSaved>>

----------------------------------------------------------------------------

Init ==
    /\ environ \in EnvValues
    /\ TERMINAL49_API_KEY = Getenv(environ, PLACEHOLDER)
    /\ proc = [c \in Clients |-> IdleProc]
    /\ DATA_FILE = write_deals(NoFile, <<>>, "ok").file
    /\ lastSaved = NothingSaved

Next ==
    \/ \E c \in Clients, r \in BookingRefs, k \in Carriers : track_by_booking(c, r, k)
    \/ \E c \in Clients :
          /\ proc[c].pc = "post"
          /\ \E o \in SubmitOutcomes : track_by_booking_reply(c, o)
    \/ \E c \in Clients, id \in RequestIds : poll_tracking_request(c, id)
    \/ \E c \in Clients :
          /\ proc[c].pc = "get_tr"
          /\ \E o \in TrOutcomes : poll_request_reply(c, o)
    \/ \E c \in Clients :
          /\ proc[c].pc = "get_ship"
          /\ \E o \in ShipOutcomes : poll_shipment_reply(c, o)
    \/ \E c \in Clients :
          /\ proc[c].pc = "get_cont"
          /\ \E o \in ContOutcomes(AwaitedId(c)) : poll_container_reply(c, o)
    \/ \E c \in Clients, b \in Bols : search_shipments_by_bol(c, b)
    \/ \E c \in Clients :
          /\ proc[c].pc = "list"
          /\ \E o \in ListingOutcomes : search_listing_reply(c, o)
    \/ \E c \in Clients :
          /\ proc[c].pc = "search_cont"
          /\ \E o \in SearchContOutcomes(AwaitedId(c)) : search_container_reply(c, o)

Spec == Init /\ [][Next]_vars

(* The deal store: one client sending one deal request after another, over
   the files the startup can leave behind *)
StartupFiles ==
    {NoFile, FileWith(InvalidText), FileWith(NullText)}
        \cup {FileWith(JsonDumps(a)) : a \in {d \in DealArrays : Encodable(d)}}

InitDeals ==
    /\ environ \in {Unset}
    /\ TERMINAL49_API_KEY = Getenv(environ, PLACEHOLDER)
    /\ proc = [c \in Clients |-> IdleProc]
    /\ DATA_FILE \in StartupFiles
    /\ lastSaved = NothingSaved

NextDeals ==
    \/ \E c \in Clients : get_deals(c)
    \/ \E c \in Clients, a \in DealArrays, io \in IoOutcomes : save_deals(c, a, io)
    \/ \E c \in Clients, f \in Filenames, u \in Uploads : import_deals(c, f, u)
    \/ \E c \in Clients, io \in IoOutcomes : import_deals_read(c, io)
    \/ \E c \in Clients : NextRequest(c)

SpecDeals == InitDeals /\ [][NextDeals]_vars

(* Concurrency: two clients, one request each, interleaved at every await *)
ConcClients == {"c1", "c2"}

ConcBookingRefs == {<<"A">>, <<" ">>}

ConcCarriers == {"Maersk", "maersk"}

ConcSubmitOutcomes ==
    {Response(200, [data |-> [id |-> "TR1", type |-> "tracking_request"]]),
     Response(422, [errors |-> "duplicate"]),
     TimeoutException}

ConcTrOutcomes ==
    {Response(200, TrBody([status |-> "succeeded"], Linked)),
     Response(200, [data |-> [attributes |-> [status |-> "pending"]]])}

ConcShipOutcomes ==
    {Response(200, ShipDoc(ShipAttrsSparse, <<[id |-> "C1", type |-> "container"]>>)),
     Response(404, [errors |-> "not found"])}

ConcContOutcomes(cid) ==
    {Response(200, [data |-> [id |-> cid, attributes |-> ContAttrsFull]]),
     Response(404, [errors |-> "not found"]),
     OtherException}

ConcListingOutcomes ==
    {Response(200, [data |-> <<[id |-> "S1", attributes |-> ShipAttrsFull,
                               relationships |->
                                   [containers |-> [data |-> <<[id |-> "C1"]>>]]]>>]),
     Response(401, [errors |-> "unauthorized"])}

ConcSearchContOutcomes(cid) ==
    {Response(200, [data |-> [id |-> cid, attributes |-> ContAttrsFuture]]),
     Response(404, [data |-> [id |-> cid]])}

ConcDealArrays == {<<[id |-> "d1"]>>, <<[id |-> "d2"], [id |-> "d1"]>>}

SeededFile == write_deals(NoFile, <<>>, "ok").file

InitConc ==
    /\ environ \in EnvValues
    /\ TERMINAL49_API_KEY = Getenv(environ, PLACEHOLDER)
    /\ proc = [c \in ConcClients |-> IdleProc]
    /\ DATA_FILE = SeededFile
    /\ lastSaved = NothingSaved

NextConc ==
    \/ \E c \in ConcClients, r \in ConcBookingRefs, k \in ConcCarriers :
          track_by_booking(c, r, k)
    \/ \E c \in ConcClients :
          /\ proc[c].pc = "post"
          /\ \E o \in ConcSubmitOutcomes : track_by_booking_reply(c, o)
    \/ \E c \in ConcClients, id \in RequestIds : poll_tracking_request(c, id)
    \/ \E c \in ConcClients :
          /\ proc[c].pc = "get_tr"
          /\ \E o \in ConcTrOutcomes : poll_request_reply(c, o)
    \/ \E c \in ConcClients :
          /\ proc[c].pc = "get_ship"
          /\ \E o \in ConcShipOutcomes : poll_shipment_reply(c, o)
    \/ \E c \in ConcClients :
          /\ proc[c].pc = "get_cont"
          /\ \E o \in ConcContOutcomes(AwaitedId(c)) : poll_container_reply(c, o)
    \/ \E c \in ConcClients : search_shipments_by_bol(c, <<"A">>)
    \/ \E c \in ConcClients :
          /\ proc[c].pc = "list"
          /\ \E o \in ConcListingOutcomes : search_listing_reply(c, o)
    \/ \E c \in ConcClients :
          /\ proc[c].pc = "search_cont"
          /\ \E o \in ConcSearchContOutcomes(AwaitedId(c)) : search_container_reply(c, o)
    \/ \E c \in ConcClients : get_deals(c)
    \/ \E c \in ConcClients, a \in ConcDealArrays : save_deals(c, a, "ok")
    \/ \E c \in ConcClients, a \in ConcDealArrays :
          import_deals(c, <<"deals", ".json">>, JsonDumps(a))
    \/ \E c \in ConcClients : import_deals_read(c, "ok")

SpecConc == InitConc /\ [][NextConc]_vars

----------------------------------------------------------------------------
(* Vocabulary of the properties *)

Raised(c, code) == proc[c].result.kind = "raise" /\ proc[c].result.code = code

Returned(c) == proc[c].result.kind = "return"

NoUpstreamCall(c) == proc[c].calls = <<>>

AllWhitespace(ref) == \A k \in 1..Len(ref) : ref[k] \in Whitespace

CredentialMissing == environ = Unset \/ environ = PLACEHOLDER

Started(c) == proc[c].op # "none"

SupportedCarriers ==
    {"Maersk", "MSC", "CMA CGM", "Hapag-Lloyd", "COSCO", "ONE", "Evergreen",
     "HMM", "ZIM", "Yang Ming"}

Elems(seq) == {seq[k] : k \in 1..Len(seq)}

IsUnknownCarrierError(c) ==
    /\ Raised(c, 400)
    /\ proc[c].result.detail[1] = "Unknown carrier \""
    /\ proc[c].result.detail[2] = proc[c].carrier
    /\ SupportedCarriers \subseteq Elems(proc[c].result.detail)

IsResponse(o) == o.kind = "response"

Is200(o) == o.kind = "response" /\ o.status = 200

AllResponses(c) == \A k \in 1..Len(proc[c].replies) : IsResponse(proc[c].replies[k])

(* the reply to the k-th upstream call of a finished or running request *)
Reply(c, k) == proc[c].replies[k]

Answered(c, k) == Len(proc[c].replies) >= k /\ IsResponse(Reply(c, k))

TrAttrs(body) == Get(Get(body, "data", EmptyObj), "attributes", EmptyObj)

HasId(cref) == "id" \in DOMAIN cref /\ cref["id"] # None /\ cref["id"] # ""

RefsOf(shipment) ==
    IF "relationships" \in DOMAIN shipment
          /\ "containers" \in DOMAIN shipment["relationships"]
          /\ "data" \in DOMAIN shipment["relationships"]["containers"]
    THEN shipment["relationships"]["containers"]["data"]
    ELSE <<>>

DataOf(body) == IF "data" \in DOMAIN body THEN body["data"] ELSE EmptyObj

UpstreamAttrs(body) ==
    IF "attributes" \in DOMAIN DataOf(body) THEN DataOf(body)["attributes"] ELSE EmptyObj

UpstreamId(body) == IF "id" \in DOMAIN DataOf(body) THEN DataOf(body)["id"] ELSE None

----------------------------------------------------------------------------
(* C1 (as stated): with the credential unset or equal to the placeholder,
   every tracking operation fails with 503 for every input and issues no
   upstream call. *)
C1_AsStated ==
    \A c \in Clients :
        (CredentialMissing /\ Started(c)) => (Raised(c, 503) /\ NoUpstreamCall(c))

(* C1 (amended): with the credential unset or equal to the placeholder, a
   poll, a search and a submission with a non-blank booking reference fail
   with 503; a submission with a blank booking reference fails with 400; in
   every case no upstream call is issued. *)
C1_NotConfigured ==
    \A c \in Clients :
        (CredentialMissing /\ Started(c)) =>
            /\ proc[c].pc = "done"
            /\ NoUpstreamCall(c)
            /\ IF proc[c].op = "submit" /\ AllWhitespace(proc[c].bookingRef)
               THEN Raised(c, 400)
               ELSE Raised(c, 503)

C1_Witness ==
    \E c \in Clients :
        /\ environ = Unset
        /\ proc[c].op = "submit"
        /\ proc[c].bookingRef = <<"A">>
        /\ proc[c].carrier = "Maersk"
        /\ Raised(c, 503)

(* C2: a submission whose booking reference is empty or only whitespace
   fails with 400 "Booking reference is required" and issues no upstream
   call, whatever the carrier and the credential. *)
C2_BlankReference ==
    \A c \in Clients :
        (proc[c].op = "submit" /\ AllWhitespace(proc[c].bookingRef)) =>
            /\ Raised(c, 400)
            /\ proc[c].result.detail = <<"Booking reference is required">>
            /\ NoUpstreamCall(c)

C2_Witness ==
    \E c \in Clients :
        /\ ~CredentialMissing
        /\ proc[c].op = "submit"
        /\ proc[c].bookingRef = <<" ", "\t">>
        /\ proc[c].carrier = "Maersk"
        /\ Raised(c, 400)

(* C3 (as stated): a submission whose carrier is not an exact key of the SCAC
   table fails with the 400 unknown-carrier error listing every supported
   name, and issues no upstream call. *)
C3_AsStated ==
    \A c \in Clients :
        (proc[c].op = "submit" /\ proc[c].carrier \notin SupportedCarriers) =>
            (IsUnknownCarrierError(c) /\ NoUpstreamCall(c))

(* C3 (amended): a submission whose carrier is not an exact key of the SCAC
   table issues no upstream call and fails; when its booking reference is
   not blank and the credential is configured it fails with the 400
   unknown-carrier error listing every supported name. *)
C3_UnknownCarrier ==
    \A c \in Clients :
        (proc[c].op = "submit" /\ proc[c].carrier \notin SupportedCarriers) =>
            /\ NoUpstreamCall(c)
            /\ proc[c].result.kind = "raise"
            /\ (~AllWhitespace(proc[c].bookingRef) /\ ~CredentialMissing)
                  => IsUnknownCarrierError(c)

C3_Witness ==
    \E c \in Clients :
        /\ ~CredentialMissing
        /\ proc[c].op = "submit"
        /\ proc[c].bookingRef = <<"A">>
        /\ proc[c].carrier = "maersk"
        /\ IsUnknownCarrierError(c)

(* C4: a submission answered with HTTP 422 returns duplicate = true and
   success = true and carries the upstream body. *)
C4_Duplicate ==
    \A c \in Clients :
        (proc[c].op = "submit" /\ Answered(c, 1) /\ Reply(c, 1).status = 422) =>
            /\ Returned(c)
            /\ "duplicate" \in DOMAIN proc[c].result.body
            /\ proc[c].result.body["duplicate"] = TRUE
            /\ proc[c].result.body["success"] = TRUE
            /\ proc[c].result.body["data"] = Reply(c, 1).body

C4_Witness ==
    \E c \in Clients :
        /\ proc[c].op = "submit"
        /\ Answered(c, 1)
        /\ Reply(c, 1).status = 422
        /\ Returned(c)
        /\ proc[c].result.body["data"] = [errors |-> "duplicate"]

(* C5: a submission answered by upstream returns normally for every HTTP
   status: success is true exactly for 200, 201, 202 and 422, and the return
   carries the upstream status and body. *)
C5_NormalReturn ==
    \A c \in Clients :
        (proc[c].op = "submit" /\ Answered(c, 1)) =>
            /\ Returned(c)
            /\ proc[c].result.body["success"] = (Reply(c, 1).status \in {200, 201, 202, 422})
            /\ proc[c].result.body["status"] = Reply(c, 1).status
            /\ proc[c].result.body["data"] = Reply(c, 1).body

C5_Witness ==
    \E c \in Clients :
        /\ proc[c].op = "submit"
        /\ Answered(c, 1)
        /\ Reply(c, 1).status = 500
        /\ Returned(c)
        /\ proc[c].result.body["success"] = FALSE

(* C6: a poll whose tracking-request read is answered 200 with status
   pending returns success with tracking_status "pending" and issues no
   other upstream call (no shipment fetch, no container fetch). *)
C6_Pending ==
    \A c \in Clients :
        (/\ proc[c].op = "poll"
         /\ Len(proc[c].replies) >= 1
         /\ Is200(Reply(c, 1))
         /\ "status" \in DOMAIN TrAttrs(Reply(c, 1).body)
         /\ TrAttrs(Reply(c, 1).body)["status"] = "pending") =>
            /\ Returned(c)
            /\ proc[c].result.body["success"] = TRUE
            /\ proc[c].result.body["tracking_status"] = "pending"
            /\ Len(proc[c].calls) = 1
            /\ proc[c].calls[1].resource = "tracking_requests"

C6_Witness ==
    \E c \in Clients :
        /\ proc[c].op = "poll"
        /\ Len(proc[c].replies) = 1
        /\ Reply(c, 1) = Response(200, TrBody([status |-> "pending", failed_reason |-> None], Linked))
        /\ Returned(c)
        /\ proc[c].result.body["tracking_status"] = "pending"

(* C7: a poll whose tracking-request read is answered 200 with status failed
   returns success = false, tracking_status "failed", issues no other
   upstream call, and its reason is the upstream failed_reason string when
   one is supplied and "Unknown error" when the key is absent. *)
C7_Failed ==
    \A c \in Clients :
        (/\ proc[c].op = "poll"
         /\ Len(proc[c].replies) >= 1
         /\ Is200(Reply(c, 1))
         /\ "status" \in DOMAIN TrAttrs(Reply(c, 1).body)
         /\ TrAttrs(Reply(c, 1).body)["status"] = "failed") =>
            LET attrs == TrAttrs(Reply(c, 1).body)
            IN  /\ Returned(c)
                /\ proc[c].result.body["success"] = FALSE
                /\ proc[c].result.body["tracking_status"] = "failed"
                /\ Len(proc[c].calls) = 1
                /\ ("failed_reason" \in DOMAIN attrs /\ attrs["failed_reason"] # None)
                      => proc[c].result.body["reason"] = attrs["failed_reason"]
                /\ ("failed_reason" \notin DOMAIN attrs)
                      => proc[c].result.body["reason"] = "Unknown error"

C7_Witness ==
    \E c \in Clients :
        /\ proc[c].op = "poll"
        /\ Len(proc[c].replies) = 1
        /\ Is200(Reply(c, 1))
        /\ TrAttrs(Reply(c, 1).body) = [status |-> "failed", failed_reason |-> "carrier rejected"]
        /\ Returned(c)
        /\ proc[c].result.body["reason"] = "carrier rejected"

(* Container fetches of a poll are its upstream calls from the third on *)
PollFetchCalls(c) == SubSeq(proc[c].calls, 3, Len(proc[c].calls))

PollFetchReplies(c) == SubSeq(proc[c].replies, 3, Len(proc[c].replies))

(* the shipment a poll resolved, as upstream returned it *)
PollShipment(c) == IF Is200(Reply(c, 2)) THEN DataOf(Reply(c, 2).body) ELSE EmptyObj

PollCompleted(c) ==
    /\ proc[c].op = "poll"
    /\ proc[c].pc = "done"
    /\ Len(proc[c].replies) >= 2
    /\ AllResponses(c)

(* one returned record stands for one upstream container document *)
EntryOf(rec, body) ==
    /\ rec["id"] = UpstreamId(body)
    /\ rec["number"] = (IF "number" \in DOMAIN UpstreamAttrs(body)
                        THEN UpstreamAttrs(body)["number"] ELSE "")

(* Search: the container lists expected for the shipments of a listing, given
   the replies to the container fetches in the order they were issued *)
RECURSIVE ExpectedLists(_, _)
ExpectedLists(ships, fetched) ==
    IF ships = <<>> THEN <<>>
    ELSE LET n == Len(SelectSeq(RefsOf(Head(ships)), HasId))
             mine == SelectSeq(SubSeq(fetched, 1, n), Is200)
         IN  <<[k \in 1..Len(mine) |-> DataOf(mine[k].body)]>>
                \o ExpectedLists(Tail(ships), SubSeq(fetched, n + 1, Len(fetched)))

RECURSIVE AllRefsWithId(_)
AllRefsWithId(ships) ==
    IF ships = <<>> THEN <<>>
    ELSE SelectSeq(RefsOf(Head(ships)), HasId) \o AllRefsWithId(Tail(ships))

SearchListing(c) ==
    IF "data" \in DOMAIN Reply(c, 1).body THEN Reply(c, 1).body["data"] ELSE <<>>

SearchCompleted(c) ==
    /\ proc[c].op = "search"
    /\ proc[c].pc = "done"
    /\ Len(proc[c].replies) >= 1
    /\ AllResponses(c)

(* C8: a poll that resolved a shipment, and a search, fetch every container
   reference that has an identifier once, in relationship order, and return
   success with exactly one container entry per fetch answered 200, in that
   order; references without identifier and fetches answered non-200 add
   nothing; containerCount is the length of the returned list. *)
C8_ContainerList ==
    \A c \in Clients :
        /\ PollCompleted(c) =>
              LET withId == SelectSeq(RefsOf(PollShipment(c)), HasId)
                  kept == SelectSeq(PollFetchReplies(c), Is200)
                  body == proc[c].result.body
              IN  /\ Returned(c)
                  /\ body["success"] = TRUE
                  /\ Len(PollFetchCalls(c)) = Len(withId)
                  /\ \A k \in 1..Len(withId) :
                        /\ PollFetchCalls(c)[k].resource = "containers"
                        /\ PollFetchCalls(c)[k].id = withId[k]["id"]
                  /\ Len(body["containers"]) = Len(kept)
                  /\ \A k \in 1..Len(kept) : EntryOf(body["containers"][k], kept[k].body)
                  /\ body["containerCount"] = Len(body["containers"])
        /\ SearchCompleted(c) =>
              LET ships == SearchListing(c)
                  fetched == SubSeq(proc[c].replies, 2, Len(proc[c].replies))
                  calls == SubSeq(proc[c].calls, 2, Len(proc[c].calls))
                  withId == AllRefsWithId(ships)
                  expected == ExpectedLists(ships, fetched)
                  body == proc[c].result.body
              IN  /\ Returned(c)
                  /\ body["success"] = TRUE
                  /\ Len(calls) = Len(withId)
                  /\ \A k \in 1..Len(withId) : calls[k].id = withId[k]["id"]
                  /\ Len(body["results"]) = Len(expected)
                  /\ \A k \in 1..Len(expected) :
                        /\ body["results"][k]["containers"] = expected[k]
                        /\ body["results"][k]["containerCount"] = Len(expected[k])

C8_Witness ==
    \E c \in Clients :
        /\ PollCompleted(c)
        /\ RefsOf(PollShipment(c)) = <<[id |-> "C1", type |-> "container"], [id |-> "C2"]>>
        /\ Len(proc[c].replies) = 4
        /\ Is200(Reply(c, 3))
        /\ Reply(c, 4).status = 404
        /\ Returned(c)
        /\ Len(proc[c].result.body["containers"]) = 1
        /\ proc[c].result.body["containers"][1]["id"] = "C1"
        /\ proc[c].result.body["containerCount"] = 1

(* C9: a search answered by upstream returns success with one result per
   shipment of the upstream listing, in listing order, and totalShipments
   equal to the number of results; an empty listing gives results = [] and
   totalShipments = 0. *)
C9_SearchResults ==
    \A c \in Clients :
        SearchCompleted(c) =>
            LET ships == SearchListing(c)
                body == proc[c].result.body
            IN  /\ Returned(c)
                /\ body["success"] = TRUE
                /\ Len(body["results"]) = Len(ships)
                /\ \A k \in 1..Len(ships) :
                      body["results"][k]["shipment"]["id"] =
                          (IF "id" \in DOMAIN ships[k] THEN ships[k]["id"] ELSE None)
                /\ body["totalShipments"] = Len(body["results"])
                /\ (ships = <<>>) => (body["results"] = <<>> /\ body["totalShipments"] = 0)

C9_Witness ==
    \E c \in Clients :
        /\ SearchCompleted(c)
        /\ Reply(c, 1) = Response(200, [data |-> <<>>])
        /\ Returned(c)
        /\ proc[c].result.body = [success |-> TRUE, results |-> <<>>, totalShipments |-> 0]

(* C10: every container record a poll returns carries under raw the complete
   attribute set of the upstream container document it was built from,
   unchanged, also when none of the named fields is present upstream. *)
C10_RawPreserved ==
    \A c \in Clients :
        (PollCompleted(c) /\ Returned(c) /\ "containers" \in DOMAIN proc[c].result.body) =>
            LET kept == SelectSeq(PollFetchReplies(c), Is200)
                recs == proc[c].result.body["containers"]
            IN  /\ Len(recs) = Len(kept)
                /\ \A k \in 1..Len(recs) :
                      /\ DOMAIN recs[k]["raw"] = DOMAIN UpstreamAttrs(kept[k].body)
                      /\ \A f \in DOMAIN recs[k]["raw"] :
                            recs[k]["raw"][f] = UpstreamAttrs(kept[k].body)[f]

C10_Witness ==
    \E c \in Clients :
        /\ PollCompleted(c)
        /\ Returned(c)
        /\ Len(proc[c].result.body["containers"]) = 1
        /\ proc[c].result.body["containers"][1]["number"] = ""
        /\ proc[c].result.body["containers"][1]["status"] = ""
        /\ proc[c].result.body["containers"][1]["raw"] =
              [current_issues |-> "none", pod_timezone |-> "PST"]

----------------------------------------------------------------------------
LastReply(c) == proc[c].replies[Len(proc[c].replies)]

Failed(c) == proc[c].replies # <<>> /\ ~IsResponse(LastReply(c))

(* C11: in the submitter and the poller, at every upstream call, a timeout
   raises 504 and any other exception raises 502 whose detail is the
   exception's message; the request never returns normally then. *)
C11_TransportFailures ==
    \A c \in Clients :
        (proc[c].op \in {"submit", "poll"} /\ Failed(c)) =>
            /\ proc[c].pc = "done"
            /\ proc[c].result.kind = "raise"
            /\ (LastReply(c).kind = "timeout") => Raised(c, 504)
            /\ (LastReply(c).kind = "exception") =>
                  (Raised(c, 502) /\ proc[c].result.detail = <<LastReply(c).msg>>)

C11_Witness ==
    \E c \in Clients :
        /\ proc[c].op = "poll"
        /\ Len(proc[c].replies) = 4
        /\ proc[c].calls[4].resource = "containers"
        /\ LastReply(c).kind = "timeout"
        /\ Raised(c, 504)

(* C12: in a search, an exception at the listing or at any container fetch,
   a timeout included, raises 502 with the exception's message; nothing
   collected before it is returned. *)
C12_SearchAborts ==
    \A c \in Clients :
        (proc[c].op = "search" /\ Failed(c)) =>
            /\ proc[c].pc = "done"
            /\ Raised(c, 502)
            /\ proc[c].result.detail = <<LastReply(c).msg>>

C12_Witness ==
    \E c \in Clients :
        /\ proc[c].op = "search"
        /\ Len(proc[c].replies) = 3
        /\ Is200(Reply(c, 2))
        /\ proc[c].containers # <<>>
        /\ LastReply(c).kind = "timeout"
        /\ Raised(c, 502)

NonSuccessStatus(o) == IsResponse(o) /\ (o.status < 200 \/ o.status > 299)

(* the returned envelope shows the upstream status st: it carries it, or it
   flags the failure *)
StatusVisible(body, st) ==
    \/ "status" \in DOMAIN body /\ body["status"] = st
    \/ body["success"] = FALSE

(* C13: in the poller and the search, when the first upstream read (the
   tracking-request read, the shipment listing) is answered with a non-2xx
   status, the request raises no error: it returns normally and the returned
   envelope carries the upstream status or a failure flag. *)
C13_BusinessStatusReturned ==
    \A c \in Clients :
        (/\ proc[c].op \in {"poll", "search"}
         /\ proc[c].pc = "done"
         /\ AllResponses(c)
         /\ Len(proc[c].replies) >= 1
         /\ NonSuccessStatus(Reply(c, 1))) =>
            /\ Returned(c)
            /\ StatusVisible(proc[c].result.body, Reply(c, 1).status)

TrackedOf(body) ==
    IF "relationships" \in DOMAIN DataOf(body)
          /\ "tracked_object" \in DOMAIN DataOf(body)["relationships"]
          /\ "data" \in DOMAIN DataOf(body)["relationships"]["tracked_object"]
    THEN DataOf(body)["relationships"]["tracked_object"]["data"]
    ELSE NoneObj

NotLinked(body) ==
    \/ TrackedOf(body) = NoneObj
    \/ "id" \notin DOMAIN TrackedOf(body)
    \/ TrackedOf(body)["id"] \in {None, ""}

UpstreamStatus(body) ==
    IF "status" \in DOMAIN TrAttrs(body) THEN TrAttrs(body)["status"] ELSE "unknown"

(* C14: a poll whose tracking-request read is answered 200 with a status
   other than pending and failed and with no linked shipment (tracked_object
   absent, null or without an id) returns success with tracking_status equal
   to the upstream status ("unknown" when upstream gives none) and a message,
   and issues no other upstream call. *)
C14_NotLinkedYet ==
    \A c \in Clients :
        (/\ proc[c].op = "poll"
         /\ Len(proc[c].replies) >= 1
         /\ Is200(Reply(c, 1))
         /\ UpstreamStatus(Reply(c, 1).body) \notin {"pending", "failed"}
         /\ NotLinked(Reply(c, 1).body)) =>
            /\ Returned(c)
            /\ proc[c].result.body["success"] = TRUE
            /\ proc[c].result.body["tracking_status"] = UpstreamStatus(Reply(c, 1).body)
            /\ "message" \in DOMAIN proc[c].result.body
            /\ Len(proc[c].calls) = 1

C14_Witness ==
    \E c \in Clients :
        /\ proc[c].op = "poll"
        /\ Len(proc[c].replies) = 1
        /\ Reply(c, 1) = Response(200, TrBody([status |-> "created"], NoneObj))
        /\ Returned(c)
        /\ proc[c].result.body["tracking_status"] = "created"

SummaryFields ==
    {"id", "bol_number", "shipping_line", "scac", "vessel", "voyage", "pol_name",
     "pol_locode", "pod_name", "pod_locode", "destination", "pol_etd", "pol_atd",
     "pod_eta", "pod_ata", "status"}

(* C15: a poll whose shipment read is answered with a status other than 200
   returns success with tracking_status "succeeded", a shipment summary whose
   fields are all None, an empty container list and containerCount 0, and
   issues no container fetch. *)
C15_ShipmentReadFailed ==
    \A c \in Clients :
        (/\ proc[c].op = "poll"
         /\ Answered(c, 2)
         /\ Reply(c, 2).status # 200) =>
            /\ proc[c].pc = "done"
            /\ Returned(c)
            /\ proc[c].result.body["success"] = TRUE
            /\ proc[c].result.body["tracking_status"] = "succeeded"
            /\ DOMAIN proc[c].result.body["shipment"] = SummaryFields
            /\ \A f \in SummaryFields : proc[c].result.body["shipment"][f] = None
            /\ proc[c].result.body["containers"] = <<>>
            /\ proc[c].result.body["containerCount"] = 0
            /\ Len(proc[c].calls) = 2

C15_Witness ==
    \E c \in Clients :
        /\ proc[c].op = "poll"
        /\ Len(proc[c].replies) = 2
        /\ Reply(c, 2) = Response(500, ShipDoc(ShipAttrsFull, <<[id |-> "C1"]>>))
        /\ Returned(c)
        /\ proc[c].result.body["containerCount"] = 0

(* C16: a poll has at most one upstream call outstanding and issues its calls
   in the order tracking-request read, shipment read, container reads; the
   container reads are, in relationship order, reads of entries that have an
   identifier, at most one per entry, so a poll over N entries issues at most
   1 + 1 + N calls and repeats none, whatever the replies. *)
C16_CallSequence ==
    \A c \in Clients :
        (proc[c].op = "poll") =>
            LET calls == proc[c].calls
                n == Len(proc[c].replies)
                refs == IF n >= 2 THEN RefsOf(PollShipment(c)) ELSE <<>>
                withId == SelectSeq(refs, HasId)
            IN  /\ Len(calls) = (IF proc[c].pc = "done" THEN n ELSE n + 1)
                /\ \A k \in 1..Len(calls) :
                      calls[k].method = "GET" /\
                      calls[k].resource = (IF k = 1 THEN "tracking_requests"
                                           ELSE IF k = 2 THEN "shipments"
                                           ELSE "containers")
                /\ Len(calls) >= 1 => calls[1].id = proc[c].request_id
                /\ Len(calls) <= 2 + Len(refs)
                /\ Len(calls) - 2 <= Len(withId)
                /\ \A k \in 3..Len(calls) : calls[k].id = withId[k - 2]["id"]
                /\ \A k \in 1..n : ~IsResponse(Reply(c, k)) => k = n

C16_Witness ==
    \E c \in Clients :
        /\ PollCompleted(c)
        /\ RefsOf(PollShipment(c)) = <<[id |-> "C1", type |-> "container"], [id |-> "C2"]>>
        /\ Len(proc[c].calls) = 4
        /\ Reply(c, 3).status = 404
        /\ proc[c].calls[3].id = "C1"
        /\ proc[c].calls[4].id = "C2"

(* C19: a submission is checked in the order blank reference (400),
   placeholder credential (503), unknown carrier (400): it fails with the
   first that applies, and the POST, carrying the stripped reference and the
   carrier's SCAC, is issued only when none applies. *)
C19_ValidationOrder ==
    \A c \in Clients :
        (proc[c].op = "submit") =>
            IF AllWhitespace(proc[c].bookingRef)
            THEN /\ Raised(c, 400)
                 /\ proc[c].result.detail = <<"Booking reference is required">>
                 /\ NoUpstreamCall(c)
            ELSE IF CredentialMissing
            THEN Raised(c, 503) /\ NoUpstreamCall(c)
            ELSE IF proc[c].carrier \notin SupportedCarriers
            THEN IsUnknownCarrierError(c) /\ NoUpstreamCall(c)
            ELSE /\ Len(proc[c].calls) = 1
                 /\ proc[c].calls[1].method = "POST"
                 /\ proc[c].calls[1].resource = "tracking_requests"
                 /\ proc[c].calls[1].request_number # <<>>
                 /\ proc[c].calls[1].request_number[1] \notin Whitespace

C19_Witness ==
    \E c \in Clients :
        /\ environ = PLACEHOLDER
        /\ proc[c].op = "submit"
        /\ proc[c].bookingRef = <<" ">>
        /\ proc[c].carrier = "Maers"
        /\ Raised(c, 400)
        /\ proc[c].result.detail = <<"Booking reference is required">>

(* C20: a poll whose tracking-request read is answered with a status other
   than 200 ends with the return {success: false, status, data} carrying the
   upstream status and body, and issues no other upstream call, whatever
   status the body names. *)
C20_RequestReadFailed ==
    \A c \in Clients :
        (/\ proc[c].op = "poll"
         /\ Answered(c, 1)
         /\ Reply(c, 1).status # 200) =>
            /\ proc[c].pc = "done"
            /\ Returned(c)
            /\ proc[c].result.body =
                  [success |-> FALSE, status |-> Reply(c, 1).status, data |-> Reply(c, 1).body]
            /\ Len(proc[c].calls) = 1

C20_Witness ==
    \E c \in Clients :
        /\ proc[c].op = "poll"
        /\ Len(proc[c].replies) = 1
        /\ Reply(c, 1) = Response(404, TrBody([status |-> "succeeded"], Linked))
        /\ Returned(c)
        /\ proc[c].result.body["status"] = 404

----------------------------------------------------------------------------
(* THE DEAL STORE *)

LoadFinished(c) == proc[c].op = "load" /\ proc[c].pc = "done"

Unreadable(file) == ~file.exists \/ file.text.json = "invalid"

(* C18: the deal store has full-replace semantics: after any sequence of saves
   and imports a finished load returns exactly the array of the most recent
   save or import that succeeded, and a load of a missing or unreadable file
   returns the empty array *)
C18_AsStated ==
    \A c \in Clients :
        LoadFinished(c) =>
            /\ Returned(c)
            /\ lastSaved.some => proc[c].result.body.deals = lastSaved.value
            /\ (~lastSaved.some /\ Unreadable(DATA_FILE)) => proc[c].result.body.deals = <<>>

----------------------------------------------------------------------------
(* CONCURRENT REQUESTS *)

(* two requests that ask the same thing and were answered the same upstream *)
SameRequest(c, d) ==
    /\ proc[c].op = proc[d].op
    /\ proc[c].bookingRef = proc[d].bookingRef
    /\ proc[c].carrier = proc[d].carrier
    /\ proc[c].request_id = proc[d].request_id
    /\ proc[c].bol = proc[d].bol
    /\ proc[c].deals = proc[d].deals
    /\ proc[c].filename = proc[d].filename
    /\ proc[c].upload = proc[d].upload
    /\ proc[c].replies = proc[d].replies

SameCourse(c, d) ==
    /\ proc[c].pc = proc[d].pc
    /\ proc[c].calls = proc[d].calls
    /\ proc[c].result = proc[d].result

TrackingOps == {"submit", "poll", "search"}

(* what a load answers when no other request runs beside it *)
LoadAlone ==
    Return([success |-> TRUE, deals |-> read_deals(SeededFile),
            count |-> Len(read_deals(SeededFile))])

(* C17 as stated: under any interleaving every request, of any kind, gives
   the result it would alone: finished requests asking the same with the same
   upstream answers agree, and a load answers what it would answer with no
   other request beside it *)
C17_AsStated ==
    /\ \A c \in ConcClients, d \in ConcClients :
          (SameRequest(c, d) /\ proc[c].pc = "done" /\ proc[d].pc = "done")
              => SameCourse(c, d)
    /\ \A c \in ConcClients : LoadFinished(c) => proc[c].result = LoadAlone

(* C17: concurrent tracking requests (submit, poll, search) are independent:
   under any interleaving, two of them asking the same and answered the same
   upstream make the same upstream calls and give the same result, whatever
   the other client does meanwhile *)
C17_TrackingIndependent ==
    \A c \in ConcClients, d \in ConcClients :
        (proc[c].op \in TrackingOps /\ SameRequest(c, d)) => SameCourse(c, d)

C17_Witness ==
    /\ \A c \in ConcClients :
          /\ proc[c].op = "poll"
          /\ proc[c].pc = "done"
          /\ Len(proc[c].replies) = 3
          /\ Returned(c)
          /\ proc[c].result.body.containerCount = 1
    /\ SameRequest("c1", "c2")

============================================================================
